---- MODULE Spec2Model ----
(***************************************************************************)
(* Model of unciv_notifier.py: the turn-monitoring and reminder engine of  *)
(* the Unciv Telegram notifier.                                            *)
(*                                                                         *)
(* The program is one asyncio event loop.  Command handlers are run one    *)
(* after the other by the update dispatcher; the monitor job is run by the *)
(* job queue as a task of its own.  A coroutine is only left at an await   *)
(* that really suspends (the HTTP fetch, a Telegram send or reply), so     *)
(* every action below is the code between two such suspension points.      *)
(* save_state never suspends: state_lock is free whenever it is taken and  *)
(* atomic_write_json contains no await.                                    *)
(*                                                                         *)
(* Time is in seconds.  Timestamps kept as isoformat strings by the code   *)
(* are kept as the number of seconds they denote (isoformat followed by    *)
(* fromisoformat is the identity on datetimes).                            *)
(***************************************************************************)
EXTENDS Integers, Sequences, FiniteSets, TLC

\* ------------------------------------------------------------------ bounds
BootTime == 1200       \* wall clock (time.time()) when the process starts
ClockStep == 600       \* granularity of the modelled wall clock
MaxTime == 1800        \* the clock stops advancing here
MaxTimeSteady == 7800  \* the same, in the runs of SpecSteady
MaxRemoteVersion == 3  \* the remote game changes at most this often (+1)
MaxJobs == 2           \* monitor jobs the queue is given in a run
MaxOps == 5            \* monitor runs started plus commands handled
MaxOpsSteady == 14     \* monitor runs started in a run of SpecSteady

\* ------------------------------------------------------- program constants
None == "None"
ERROR_DEBOUNCE_SECONDS == 300
REMINDER_SCHEDULE == <<600, 1800, 3600>>
MONITOR_INTERVAL_DEFAULT == 60

\* ------------------------------------------------------------- input sets
GameIds == {"g1", "g2"}
ChatIds == {"chat1"}
Intervals == {120}
PublishedNames == {"Rome", "ROME", "Egypt"}   \* currentPlayer values of "g1"
SendOutcomes == {"delivered", "failed"}
FetchFailures == {"timeout", "bad_body"}
NationInputs == {"rome", "Egypt", "Atlantis"}  \* " ".join(context.args[:-1])
Usernames == {"@alice", "bob"}                 \* context.args[-1]
Languages == {"UA", "de"}                      \* context.args[0] of /setlang

\* f"{BASE_URL}{new_game_id}"
GameUrl(g) == CASE g = "g1" -> "https://uncivserver.xyz/jsons/g1"
                [] g = "g2" -> "https://uncivserver.xyz/jsons/g2"
Urls == {GameUrl(g) : g \in GameIds}
GameOfUrl(u) == CHOOSE g \in GameIds : GameUrl(g) = u

\* str.upper()
Upper(n) == CASE n = "Rome" -> "ROME"
              [] n = "ROME" -> "ROME"
              [] n = "Egypt" -> "EGYPT"
              [] n = "Inca" -> "INCA"
              [] n = "rome" -> "ROME"
              [] n = "Atlantis" -> "ATLANTIS"
              [] OTHER -> n

\* str.lower()
Lower(n) == CASE n = "UA" -> "ua"
              [] n = "EN" -> "en"
              [] OTHER -> n

\* needle in hay, for upper-case names
Contains(hay, needle) ==
    \/ needle = hay
    \/ needle = "E" /\ hay \in {"ROME", "EGYPT"}
    \/ needle = "ROM" /\ hay = "ROME"

\* str.startswith("@")
StartsWithAt(u) == u \in {"@alice", "@bob"}

normalize_AsPublished(n) == n
normalize(n) == IF n = None THEN n ELSE Upper(n)

\* ---------------------------------------------------------- dictionaries
EmptyDict == [k \in {} |-> None]
Has(d, k) == k \in DOMAIN d
Get(d, k, default) == IF k \in DOMAIN d THEN d[k] ELSE default
Put(d, k, v) == [x \in DOMAIN d \cup {k} |-> IF x = k THEN v ELSE d[x]]
Del(d, k) == [x \in DOMAIN d \ {k} |-> d[x]]

\* PLAYER_LOGINS is iterated (line 433), so it is kept as its items() in
\* insertion order: a sequence of [k, v].  The empty dict is <<>> either way.
RECURSIVE ItemIndex(_, _, _)
ItemIndex(items, k, i) ==
    IF i > Len(items) THEN 0
    ELSE IF items[i].k = k THEN i ELSE ItemIndex(items, k, i + 1)
ItemsHas(items, k) == ItemIndex(items, k, 1) # 0
ItemsGet(items, k, default) ==
    IF ItemsHas(items, k) THEN items[ItemIndex(items, k, 1)].v ELSE default
ItemsPut(items, k, v) ==
    IF ItemsHas(items, k)
    THEN [items EXCEPT ![ItemIndex(items, k, 1)].v = v]
    ELSE Append(items, [k |-> k, v |-> v])

VARIABLES
    now,                        \* wall clock
    GAME_ID, CURRENT_GAME_URL, LAST_TURN_PLAYER, MAIN_CHAT_ID, NOTIFY_PAUSED,
    AVAILABLE_NATIONS, PLAYER_LOGINS, PLAYER_NOTIFICATION_STATE, ETAG_CACHE,
    BOT_LANGUAGE, MONITOR_INTERVAL_SECONDS_DEFAULT, last_error_time_by_chat,
    file,                       \* contents of STATE_FILE, None when absent
    remote,                     \* the game "g1" as published by the server
    serverETags,                \* whether the server sends ETag headers
    jobs,                       \* the job queue's jobs named 'monitor_job'
    tick,                       \* per job: the running monitor_game_state
    cmd,                        \* the command handler suspended at an await
    ev,                         \* the step just taken and the message it sent
    opsLeft                     \* what is left of MaxOps

globals == <<GAME_ID, CURRENT_GAME_URL, LAST_TURN_PLAYER, MAIN_CHAT_ID,
             NOTIFY_PAUSED, AVAILABLE_NATIONS, PLAYER_LOGINS,
             PLAYER_NOTIFICATION_STATE, ETAG_CACHE, BOT_LANGUAGE,
             MONITOR_INTERVAL_SECONDS_DEFAULT, last_error_time_by_chat>>
vars == <<now, globals, file, remote, serverETags, jobs, tick, cmd, ev, opsLeft>>

\* -------------------------------------------------------------- the remote
\* "g2" is a second game whose published state does not change.
RemoteOf(g) == IF g = "g1" THEN remote
               ELSE [currentPlayer |-> "Inca", currentTurnStartTime |-> 0,
                     etag |-> 1]

Civilizations(g) ==
    IF g = "g1"
    THEN << [civName |-> "Rome", playerType |-> "Human"],
            [civName |-> "Egypt", playerType |-> "Human"],
            [civName |-> "Babylon", playerType |-> "AI"] >>
    ELSE << [civName |-> "Inca", playerType |-> "Human"] >>

\* [c.get('civName') for c in civs if c.get('playerType') == 'Human']
HumanCivs_All(civs) == [i \in 1..Len(civs) |-> civs[i].civName]
RECURSIVE HumanCivs(_)
HumanCivs(civs) ==
    IF civs = <<>> THEN <<>>
    ELSE IF Head(civs).playerType = "Human"
         THEN <<Head(civs).civName>> \o HumanCivs(Tail(civs))
         ELSE HumanCivs(Tail(civs))

\* The body fetch_game_json returns for a request of url sent with the
\* If-None-Match header hdr (0: no header).
NotModified == [not_modified |-> TRUE, currentPlayer |-> None,
                currentTurnStartTime |-> 0, civilizations |-> <<>>]
Response(url, hdr) ==
    LET g == GameOfUrl(url) IN
    IF serverETags /\ hdr # 0 /\ hdr = RemoteOf(g).etag
    THEN NotModified
    ELSE [not_modified |-> FALSE,
          currentPlayer |-> RemoteOf(g).currentPlayer,
          currentTurnStartTime |-> RemoteOf(g).currentTurnStartTime,
          civilizations |-> Civilizations(g)]

\* ETAG_CACHE once a 200 response has been received (lines 275-277).
CacheAfter200(url) ==
    IF serverETags THEN Put(ETAG_CACHE, url, RemoteOf(GameOfUrl(url)).etag)
    ELSE ETAG_CACHE

\* next(n for n in AVAILABLE_NATIONS if n.upper() == normalized_name)
RECURSIVE FirstWithUpper(_, _)
FirstWithUpper(nations, norm) ==
    IF nations = <<>> THEN norm
    ELSE IF Upper(Head(nations)) = norm THEN Head(nations)
         ELSE FirstWithUpper(Tail(nations), norm)
get_raw_nation_name(normalized_name) ==
    FirstWithUpper(AVAILABLE_NATIONS, normalized_name)

\* ----------------------------------------------------- records of the model
JobIds == 1..MaxJobs
IdleTick == [pc |-> "idle", url |-> None, hdr |-> 0, norm |-> None,
             ts |-> 0, idx |-> 0, live |-> FALSE, errNow |-> 0, chat |-> None]
IdleCmd == [op |-> "idle", game |-> None, hdr |-> 0]
NoMsg == [kind |-> "none", to |-> None, nation |-> None, login |-> None,
          idx |-> 0]
Event(op, msg, outcome) == [op |-> op, msg |-> msg, outcome |-> outcome]
Quiet == Event("none", NoMsg, None)      \* a step of the environment
\* update.message.reply_text / reply_html of a handler: its acknowledgment
\* ("ack") or its usage or error text ("rejected")
Reply(kind, chat) == [NoMsg EXCEPT !.kind = kind, !.to = chat]

\* A reminder state as the code builds it (lines 560-564, 597-601, 461-465).
ReminderState_RemindedNow(t) ==
    [last_turn_change_time |-> t, next_reminder_index |-> 0,
     last_reminded_time |-> now]
ReminderState(t) == [last_turn_change_time |-> t, next_reminder_index |-> 0,
                     last_reminded_time |-> t]

\* A running tick holds `st`, a reference to the dict that was
\* PLAYER_NOTIFICATION_STATE[current_norm] when it read it (line 606).  Once
\* that entry is assigned a new dict, or the mapping is cleared, the tick's
\* later writes through `st` no longer reach PLAYER_NOTIFICATION_STATE.
Detach(T, keys) ==
    [j \in DOMAIN T |->
        IF T[j].pc = "send_reminder" /\ T[j].norm \in keys
        THEN [T[j] EXCEPT !.live = FALSE] ELSE T[j]]

\* payload of save_state (lines 216-224); atomic_write_json replaces the file.
Snapshot(gid, url, chat, logins, last, lang, interval) ==
    [GAME_ID |-> gid, CURRENT_GAME_URL |-> url, MAIN_CHAT_ID |-> chat,
     PLAYER_LOGINS |-> logins, LAST_TURN_PLAYER |-> last,
     BOT_LANGUAGE |-> lang, MONITOR_INTERVAL |-> interval]
save_state ==
    file' = << Snapshot(GAME_ID', CURRENT_GAME_URL', MAIN_CHAT_ID',
                        PLAYER_LOGINS', LAST_TURN_PLAYER', BOT_LANGUAGE',
                        MONITOR_INTERVAL_SECONDS_DEFAULT') >>

\* payload.get(key, default) on the document json.load returns (lines
\* 240-247).  json.dump followed by json.load gives back the strings, the
\* integers, null and the str -> str dict of the payload as they were.
PayloadGet(payload, key, default) ==
    IF key \in DOMAIN payload THEN payload[key] ELSE default

\* load_state (lines 231-253): the persisted globals as a record; the globals
\* keep their initial values when there is no state file.
load_state_DefaultInterval ==
    IF file = <<>>
    THEN [GAME_ID |-> None, CURRENT_GAME_URL |-> None, MAIN_CHAT_ID |-> None,
          PLAYER_LOGINS |-> EmptyDict, LAST_TURN_PLAYER |-> None,
          BOT_LANGUAGE |-> "en",
          MONITOR_INTERVAL |-> MONITOR_INTERVAL_DEFAULT]
    ELSE [GAME_ID |-> PayloadGet(file[1], "GAME_ID", None),
          CURRENT_GAME_URL |-> PayloadGet(file[1], "CURRENT_GAME_URL", None),
          MAIN_CHAT_ID |-> PayloadGet(file[1], "MAIN_CHAT_ID", None),
          PLAYER_LOGINS |-> PayloadGet(file[1], "PLAYER_LOGINS", EmptyDict),
          LAST_TURN_PLAYER |-> PayloadGet(file[1], "LAST_TURN_PLAYER", None),
          BOT_LANGUAGE |-> PayloadGet(file[1], "BOT_LANGUAGE", "en"),
          MONITOR_INTERVAL |-> MONITOR_INTERVAL_DEFAULT]
load_state ==
    IF file = <<>>
    THEN [GAME_ID |-> None, CURRENT_GAME_URL |-> None, MAIN_CHAT_ID |-> None,
          PLAYER_LOGINS |-> EmptyDict, LAST_TURN_PLAYER |-> None,
          BOT_LANGUAGE |-> "en",
          MONITOR_INTERVAL |-> MONITOR_INTERVAL_DEFAULT]
    ELSE [GAME_ID |-> PayloadGet(file[1], "GAME_ID", None),
          CURRENT_GAME_URL |-> PayloadGet(file[1], "CURRENT_GAME_URL", None),
          MAIN_CHAT_ID |-> PayloadGet(file[1], "MAIN_CHAT_ID", None),
          PLAYER_LOGINS |-> PayloadGet(file[1], "PLAYER_LOGINS", EmptyDict),
          LAST_TURN_PLAYER |-> PayloadGet(file[1], "LAST_TURN_PLAYER", None),
          BOT_LANGUAGE |-> PayloadGet(file[1], "BOT_LANGUAGE", "en"),
          MONITOR_INTERVAL |-> PayloadGet(file[1], "MONITOR_INTERVAL", 60)]

\* ------------------------------------------------------------------- Init
Init ==
    /\ now = BootTime
    /\ GAME_ID = None
    /\ CURRENT_GAME_URL = None
    /\ LAST_TURN_PLAYER = None
    /\ MAIN_CHAT_ID = None
    /\ NOTIFY_PAUSED = FALSE
    /\ AVAILABLE_NATIONS = <<>>
    /\ PLAYER_LOGINS = EmptyDict
    /\ PLAYER_NOTIFICATION_STATE = EmptyDict
    /\ ETAG_CACHE = EmptyDict
    /\ BOT_LANGUAGE = "en"
    /\ MONITOR_INTERVAL_SECONDS_DEFAULT = MONITOR_INTERVAL_DEFAULT
    /\ last_error_time_by_chat = EmptyDict
    /\ file = <<>>
    /\ remote = [currentPlayer |-> "Rome",
                 currentTurnStartTime |-> (BootTime - ClockStep) * 1000,
                 etag |-> 1]
    /\ serverETags \in BOOLEAN
    /\ jobs = {[id |-> 1, interval |-> MONITOR_INTERVAL_DEFAULT]}
    /\ tick = [j \in JobIds |-> IdleTick]
    /\ cmd = IdleCmd
    /\ ev = Quiet
    /\ opsLeft = MaxOps

\* ------------------------------------------------------------ environment
\* time.time() and datetime.now() read a later time.
AdvanceTo(limit) ==
    /\ now + ClockStep <= limit
    /\ now' = now + ClockStep
    /\ ev' = Quiet
    /\ UNCHANGED <<globals, file, remote, serverETags, jobs, tick, cmd, opsLeft>>
Advance == AdvanceTo(MaxTime)

\* The game server publishes a new document for "g1".  The program sees the
\* server only through its fetches, so the changes are taken while a fetch
\* is under way.
FetchUnderWay == cmd.op = "set_game" \/ \E j \in JobIds : tick[j].pc = "fetch"
RemoteChange(p, withStart) ==
    /\ remote.etag < MaxRemoteVersion
    /\ p # remote.currentPlayer
    /\ FetchUnderWay
    /\ remote' = [currentPlayer |-> p,
                  currentTurnStartTime |-> IF withStart THEN now * 1000 ELSE 0,
                  etag |-> remote.etag + 1]
    /\ ev' = Quiet
    /\ UNCHANGED <<now, globals, file, serverETags, jobs, tick, cmd, opsLeft>>

\* ------------------------------------------------- monitor_game_state (tick)
\* What no step of a tick assigns.
tickFrame == <<now, GAME_ID, CURRENT_GAME_URL, MAIN_CHAT_ID, NOTIFY_PAUSED,
               PLAYER_LOGINS, BOT_LANGUAGE, MONITOR_INTERVAL_SECONDS_DEFAULT,
               remote, serverETags, jobs, cmd, opsLeft>>

Finish(j) == [tick EXCEPT ![j] = IdleTick]

\* The job queue runs job j: monitor_game_state up to the await of the fetch
\* (lines 518-523, 265-271).  A job has at most one running instance.
TickStart(j) ==
    /\ \E job \in jobs : job.id = j
    /\ tick[j].pc = "idle"
    /\ CURRENT_GAME_URL # None
    /\ tick' = [tick EXCEPT ![j] =
                  [IdleTick EXCEPT !.pc = "fetch", !.url = CURRENT_GAME_URL,
                                   !.hdr = Get(ETAG_CACHE, CURRENT_GAME_URL, 0)]]
    /\ opsLeft > 0
    /\ opsLeft' = opsLeft - 1
    /\ ev' = Event("TickStart", NoMsg, None)
    /\ UNCHANGED <<now, globals, file, remote, serverETags, jobs, cmd>>

Data(j) == Response(tick[j].url, tick[j].hdr)

\* send_debounced_error's test (lines 505-507)
ErrorDue(chat_id, t) ==
    t - Get(last_error_time_by_chat, chat_id, 0) >= ERROR_DEBOUNCE_SECONDS

ErrorMsg(chat) == [NoMsg EXCEPT !.kind = "error", !.to = chat]

\* The except branch of lines 524-528 assigns none of the globals.
StateAfterFetchFailure_Forgets ==
    /\ LAST_TURN_PLAYER' = None
    /\ UNCHANGED <<PLAYER_NOTIFICATION_STATE, AVAILABLE_NATIONS,
                   last_error_time_by_chat, file>>
StateAfterFetchFailure ==
    UNCHANGED <<LAST_TURN_PLAYER, PLAYER_NOTIFICATION_STATE,
                AVAILABLE_NATIONS, last_error_time_by_chat, file>>

\* The fetch raised: a timeout or a transport or status error (lines 280-285),
\* or a 200 response whose body resp.json() cannot parse (line 278, after the
\* ETag of the response was cached).  Lines 524-528 and 505-509.
TickFetchFailed(j, kind) ==
    /\ tick[j].pc = "fetch"
    /\ kind = "bad_body" => ~Data(j).not_modified
    /\ ETAG_CACHE' = IF kind = "bad_body" THEN CacheAfter200(tick[j].url)
                     ELSE ETAG_CACHE
    /\ IF MAIN_CHAT_ID # None /\ ErrorDue(MAIN_CHAT_ID, now)
       THEN /\ tick' = [tick EXCEPT ![j] =
                          [IdleTick EXCEPT !.pc = "send_error",
                                           !.chat = MAIN_CHAT_ID,
                                           !.errNow = now]]
            /\ ev' = Event("TickFetchFailed", ErrorMsg(MAIN_CHAT_ID), None)
       ELSE /\ tick' = Finish(j)
            /\ ev' = Event("TickFetchFailed", NoMsg, None)
    /\ StateAfterFetchFailure
    /\ UNCHANGED tickFrame

\* context.bot.send_message returned or raised (lines 509-512).
TickSendErrorDone(j, outcome) ==
    /\ tick[j].pc = "send_error"
    /\ last_error_time_by_chat' =
          IF outcome = "delivered"
          THEN Put(last_error_time_by_chat, tick[j].chat, tick[j].errNow)
          ELSE last_error_time_by_chat
    /\ tick' = Finish(j)
    /\ ev' = Event("TickSendErrorDone", NoMsg, outcome)
    /\ UNCHANGED <<LAST_TURN_PLAYER, PLAYER_NOTIFICATION_STATE,
                   AVAILABLE_NATIONS, ETAG_CACHE, file>>
    /\ UNCHANGED tickFrame

\* lines 530-535
current_player_raw(j) ==
    IF Data(j).not_modified THEN LAST_TURN_PLAYER ELSE Data(j).currentPlayer

\* lines 544-553: the payload's currentTurnStartTime (milliseconds) when it is
\* a non-zero number, else datetime.now().
current_turn_time(j) ==
    IF Data(j).currentTurnStartTime # 0
    THEN Data(j).currentTurnStartTime \div 1000
    ELSE now

FetchReturned(j) ==
    /\ tick[j].pc = "fetch"
    /\ ETAG_CACHE' = IF Data(j).not_modified THEN ETAG_CACHE
                     ELSE CacheAfter200(tick[j].url)

\* lines 530-539: "not modified" with no LAST_TURN_PLAYER, or no currentPlayer.
TickNoPlayer_Overwrites(j) ==
    /\ FetchReturned(j)
    /\ current_player_raw(j) = None
    /\ tick' = Finish(j)
    /\ ev' = Event("TickNoPlayer", NoMsg, None)
    /\ LAST_TURN_PLAYER' = None
    /\ UNCHANGED <<PLAYER_NOTIFICATION_STATE, AVAILABLE_NATIONS,
                   last_error_time_by_chat>>
    /\ UNCHANGED tickFrame
    /\ save_state
TickNoPlayer(j) ==
    /\ FetchReturned(j)
    /\ current_player_raw(j) = None
    /\ tick' = Finish(j)
    /\ ev' = Event("TickNoPlayer", NoMsg, None)
    /\ UNCHANGED <<LAST_TURN_PLAYER, PLAYER_NOTIFICATION_STATE,
                   AVAILABLE_NATIONS, last_error_time_by_chat, file>>
    /\ UNCHANGED tickFrame

\* lines 556-579
TickFirstObservation(j) ==
    LET current_norm == normalize(current_player_raw(j))
        human_civs == HumanCivs(Data(j).civilizations)
    IN
    /\ FetchReturned(j)
    /\ current_player_raw(j) # None
    /\ LAST_TURN_PLAYER = None
    /\ LAST_TURN_PLAYER' = current_norm
    /\ PLAYER_NOTIFICATION_STATE' =
          Put(PLAYER_NOTIFICATION_STATE, current_norm,
              ReminderState(current_turn_time(j)))
    /\ AVAILABLE_NATIONS' = IF human_civs # <<>> THEN human_civs
                            ELSE AVAILABLE_NATIONS
    /\ tick' = Detach(Finish(j), {current_norm})
    /\ ev' = Event("TickFirstObservation", NoMsg, None)
    /\ UNCHANGED last_error_time_by_chat
    /\ UNCHANGED tickFrame
    /\ save_state

\* lines 581-595: the turn changed; LAST_TURN_PLAYER is assigned before the
\* await of the notification, the reminder state after it.
TickTurnChanged(j) ==
    LET current_norm == normalize(current_player_raw(j))
        player_login == ItemsGet(PLAYER_LOGINS, current_norm, None)
    IN
    /\ FetchReturned(j)
    /\ current_player_raw(j) # None
    /\ LAST_TURN_PLAYER # None
    /\ current_norm # LAST_TURN_PLAYER
    /\ LAST_TURN_PLAYER' = current_norm
    /\ IF MAIN_CHAT_ID # None /\ ~NOTIFY_PAUSED
       THEN /\ tick' = [tick EXCEPT ![j] =
                          [IdleTick EXCEPT !.pc = "send_main",
                                           !.norm = current_norm,
                                           !.ts = current_turn_time(j),
                                           !.chat = MAIN_CHAT_ID]]
            /\ ev' = Event("TickTurnChanged",
                           [NoMsg EXCEPT !.kind = "turnChange",
                                         !.to = MAIN_CHAT_ID,
                                         !.nation = current_player_raw(j),
                                         !.login = player_login], None)
            /\ UNCHANGED PLAYER_NOTIFICATION_STATE
       ELSE /\ PLAYER_NOTIFICATION_STATE' =
                  Put(PLAYER_NOTIFICATION_STATE, current_norm,
                      ReminderState(current_turn_time(j)))
            /\ tick' = Detach(Finish(j), {current_norm})
            /\ ev' = Event("TickTurnChanged", NoMsg, None)
    /\ UNCHANGED <<AVAILABLE_NATIONS, last_error_time_by_chat>>
    /\ UNCHANGED tickFrame
    /\ IF MAIN_CHAT_ID # None /\ ~NOTIFY_PAUSED THEN UNCHANGED file
       ELSE save_state

\* lines 592-603: the send returned or raised (the exception is logged).
TickSendMainDone(j, outcome) ==
    /\ tick[j].pc = "send_main"
    /\ PLAYER_NOTIFICATION_STATE' =
          Put(PLAYER_NOTIFICATION_STATE, tick[j].norm,
              ReminderState(tick[j].ts))
    /\ tick' = Detach(Finish(j), {tick[j].norm})
    /\ ev' = Event("TickSendMainDone", NoMsg, outcome)
    /\ UNCHANGED <<LAST_TURN_PLAYER, AVAILABLE_NATIONS, ETAG_CACHE,
                   last_error_time_by_chat>>
    /\ UNCHANGED tickFrame
    /\ save_state

\* lines 616-619
ReminderDue_Wraps(st, t) ==
    t >= st.last_reminded_time
           + REMINDER_SCHEDULE[(st.next_reminder_index
                                  % Len(REMINDER_SCHEDULE)) + 1]
ReminderDue(st, t) ==
    /\ st.next_reminder_index < Len(REMINDER_SCHEDULE)
    /\ t >= st.last_reminded_time
            + REMINDER_SCHEDULE[st.next_reminder_index + 1]

\* lines 605-628: same turn holder.  last_reminded_time is always a str in
\* the states the code builds, so the branch of lines 611-614 is not taken.
TickSameHolder(j) ==
    LET current_norm == normalize(current_player_raw(j))
        login == ItemsGet(PLAYER_LOGINS, current_norm, None)
    IN
    /\ FetchReturned(j)
    /\ current_player_raw(j) # None
    /\ LAST_TURN_PLAYER # None
    /\ current_norm = LAST_TURN_PLAYER
    /\ IF /\ Has(PLAYER_NOTIFICATION_STATE, current_norm)
          /\ MAIN_CHAT_ID # None
          /\ ~NOTIFY_PAUSED
          /\ ReminderDue(PLAYER_NOTIFICATION_STATE[current_norm], now)
       THEN LET idx == PLAYER_NOTIFICATION_STATE[current_norm].next_reminder_index
            IN
            /\ tick' = [tick EXCEPT ![j] =
                          [IdleTick EXCEPT !.pc = "send_reminder",
                                           !.norm = current_norm,
                                           !.idx = idx,
                                           !.live = TRUE,
                                           !.chat = MAIN_CHAT_ID]]
            /\ ev' = Event("TickSameHolder",
                           [NoMsg EXCEPT
                              !.kind = "reminder",
                              !.to = MAIN_CHAT_ID,
                              !.login = login,
                              !.nation = IF login # None THEN None
                                         ELSE get_raw_nation_name(current_norm),
                              !.idx = idx], None)
       ELSE /\ tick' = Finish(j)
            /\ ev' = Event("TickSameHolder", NoMsg, None)
    /\ UNCHANGED <<LAST_TURN_PLAYER, PLAYER_NOTIFICATION_STATE,
                   AVAILABLE_NATIONS, last_error_time_by_chat, file>>
    /\ UNCHANGED tickFrame

\* lines 630-638: the send returned or raised; st is written and saved.
TickSendReminderDone_AbortsOnFailure(j, outcome) ==
    /\ tick[j].pc = "send_reminder"
    /\ PLAYER_NOTIFICATION_STATE' =
          IF tick[j].live /\ outcome = "delivered"
          THEN [PLAYER_NOTIFICATION_STATE EXCEPT ![tick[j].norm] =
                  [@ EXCEPT !.last_reminded_time = now,
                            !.next_reminder_index = tick[j].idx + 1]]
          ELSE PLAYER_NOTIFICATION_STATE
    /\ tick' = Finish(j)
    /\ ev' = Event("TickSendReminderDone", NoMsg, outcome)
    /\ UNCHANGED <<LAST_TURN_PLAYER, AVAILABLE_NATIONS, ETAG_CACHE,
                   last_error_time_by_chat>>
    /\ UNCHANGED tickFrame
    /\ save_state
TickSendReminderDone(j, outcome) ==
    /\ tick[j].pc = "send_reminder"
    /\ PLAYER_NOTIFICATION_STATE' =
          IF tick[j].live
          THEN [PLAYER_NOTIFICATION_STATE EXCEPT ![tick[j].norm] =
                  [@ EXCEPT !.last_reminded_time = now,
                            !.next_reminder_index = tick[j].idx + 1]]
          ELSE PLAYER_NOTIFICATION_STATE
    /\ tick' = Finish(j)
    /\ ev' = Event("TickSendReminderDone", NoMsg, outcome)
    /\ UNCHANGED <<LAST_TURN_PLAYER, AVAILABLE_NATIONS, ETAG_CACHE,
                   last_error_time_by_chat>>
    /\ UNCHANGED tickFrame
    /\ save_state

\* --------------------------------------------------------------- commands
\* Updates are dispatched one at a time: a handler starts only when the
\* previous one has returned.
CmdIdle == cmd.op = "idle"
CmdStart == CmdIdle /\ opsLeft > 0 /\ opsLeft' = opsLeft - 1

\* set_game up to the await of the fetch (lines 304-316).  Without arguments
\* the handler replies with the usage text and returns (lines 307-309).
SetGameStart(chat, g) ==
    /\ CmdStart
    /\ MAIN_CHAT_ID' = chat
    /\ cmd' = IF g = None THEN IdleCmd
              ELSE [op |-> "set_game", game |-> g,
                    hdr |-> Get(ETAG_CACHE, GameUrl(g), 0)]
    /\ ev' = Event("SetGameStart",
                   IF g = None THEN Reply("rejected", chat) ELSE NoMsg, None)
    /\ UNCHANGED <<now, GAME_ID, CURRENT_GAME_URL, LAST_TURN_PLAYER,
                   NOTIFY_PAUSED, AVAILABLE_NATIONS, PLAYER_LOGINS,
                   PLAYER_NOTIFICATION_STATE, ETAG_CACHE, BOT_LANGUAGE,
                   MONITOR_INTERVAL_SECONDS_DEFAULT, last_error_time_by_chat,
                   file, remote, serverETags, jobs, tick>>

\* lines 317-322: the fetch raised, or the server answered "not modified".
SetGameFetchFailed(kind) ==
    /\ cmd.op = "set_game"
    /\ kind = "bad_body" => ~Response(GameUrl(cmd.game), cmd.hdr).not_modified
    /\ kind = "not_modified" => Response(GameUrl(cmd.game), cmd.hdr).not_modified
    /\ ETAG_CACHE' = IF kind = "bad_body" THEN CacheAfter200(GameUrl(cmd.game))
                     ELSE ETAG_CACHE
    /\ UNCHANGED opsLeft
    /\ cmd' = IdleCmd
    /\ ev' = Event("SetGameFetchFailed", Reply("rejected", MAIN_CHAT_ID), None)
    /\ UNCHANGED <<now, GAME_ID, CURRENT_GAME_URL, LAST_TURN_PLAYER,
                   MAIN_CHAT_ID, NOTIFY_PAUSED, AVAILABLE_NATIONS,
                   PLAYER_LOGINS, PLAYER_NOTIFICATION_STATE, BOT_LANGUAGE,
                   MONITOR_INTERVAL_SECONDS_DEFAULT, last_error_time_by_chat,
                   file, remote, serverETags, jobs, tick>>

\* lines 324-353: the fetch returned a payload.
SetGameFetched ==
    LET url == GameUrl(cmd.game)
        data == Response(url, cmd.hdr)
    IN
    /\ cmd.op = "set_game"
    /\ ~data.not_modified
    /\ ETAG_CACHE' = CacheAfter200(url)
    /\ PLAYER_LOGINS' = EmptyDict
    /\ PLAYER_NOTIFICATION_STATE' = EmptyDict
    /\ LAST_TURN_PLAYER' = None
    /\ GAME_ID' = cmd.game
    /\ CURRENT_GAME_URL' = url
    /\ AVAILABLE_NATIONS' = HumanCivs(data.civilizations)
    /\ tick' = Detach(tick, DOMAIN PLAYER_NOTIFICATION_STATE)
    /\ UNCHANGED opsLeft
    /\ cmd' = IdleCmd
    /\ ev' = Event("SetGameFetched", Reply("ack", MAIN_CHAT_ID), None)
    /\ UNCHANGED <<now, MAIN_CHAT_ID, NOTIFY_PAUSED, BOT_LANGUAGE,
                   MONITOR_INTERVAL_SECONDS_DEFAULT, last_error_time_by_chat,
                   remote, serverETags, jobs>>
    /\ save_state

\* set_interval_cmd with a numeric argument (lines 363-375).  The handler has
\* no await between removing the old jobs and adding the new one.  A removed
\* job starts no further run; a run already started goes on.  The new job is
\* another job of the queue, with a running instance of its own.
JobIdsOf(js) == {job.id : job \in js}
NewJobId == 1 + CHOOSE i \in JobIdsOf(jobs) : \A k \in JobIdsOf(jobs) : k <= i

\* lines 366-371: get_jobs_by_name, schedule_removal of each, run_repeating
JobsAfterSetInterval_KeepsOld(new_interval) ==
    jobs \cup {[id |-> NewJobId, interval |-> new_interval]}
JobsAfterSetInterval(new_interval) ==
    {[id |-> NewJobId, interval |-> new_interval]}

SetInterval(new_interval) ==
    /\ CmdStart
    /\ NewJobId \in JobIds
    /\ MONITOR_INTERVAL_SECONDS_DEFAULT' = new_interval
    /\ jobs' = JobsAfterSetInterval(new_interval)
    /\ ev' = Event("SetInterval", Reply("ack", MAIN_CHAT_ID), None)
    /\ UNCHANGED <<now, GAME_ID, CURRENT_GAME_URL, LAST_TURN_PLAYER,
                   MAIN_CHAT_ID, NOTIFY_PAUSED, AVAILABLE_NATIONS,
                   PLAYER_LOGINS, PLAYER_NOTIFICATION_STATE, ETAG_CACHE,
                   BOT_LANGUAGE, last_error_time_by_chat, remote, serverETags,
                   tick, cmd>>
    /\ save_state

\* line 452, evaluated once NOTIFY_PAUSED has been toggled off
ResumeRearms_Subscribed(paused_before) ==
    /\ LAST_TURN_PLAYER # None
    /\ paused_before
    /\ ItemsHas(PLAYER_LOGINS, LAST_TURN_PLAYER)
ResumeRearms(paused_before) == LAST_TURN_PLAYER # None /\ paused_before

\* pause_notifications up to the await of the reply (lines 444-466).
PauseToggle ==
    LET resumed == NOTIFY_PAUSED
        rearm == resumed /\ ResumeRearms(NOTIFY_PAUSED)
        login == ItemsGet(PLAYER_LOGINS, LAST_TURN_PLAYER, None)
    IN
    /\ CmdStart
    /\ NOTIFY_PAUSED' = ~NOTIFY_PAUSED
    /\ PLAYER_NOTIFICATION_STATE' =
          IF rearm
          THEN Put(PLAYER_NOTIFICATION_STATE, LAST_TURN_PLAYER,
                   ReminderState(now))
          ELSE PLAYER_NOTIFICATION_STATE
    /\ tick' = IF rearm THEN Detach(tick, {LAST_TURN_PLAYER}) ELSE tick
    /\ cmd' = [IdleCmd EXCEPT !.op = "pause_reply"]
    /\ ev' = Event("PauseToggle",
                   [NoMsg EXCEPT
                      !.kind = IF resumed THEN "resumed" ELSE "paused",
                      !.login = IF rearm THEN login ELSE None,
                      !.nation = IF rearm
                                 THEN get_raw_nation_name(LAST_TURN_PLAYER)
                                 ELSE None], None)
    /\ UNCHANGED <<now, GAME_ID, CURRENT_GAME_URL, LAST_TURN_PLAYER,
                   MAIN_CHAT_ID, AVAILABLE_NATIONS, PLAYER_LOGINS, ETAG_CACHE,
                   BOT_LANGUAGE, MONITOR_INTERVAL_SECONDS_DEFAULT,
                   last_error_time_by_chat, file, remote, serverETags, jobs>>

\* The reply returned, and save_state runs (line 467); or it raised, and the
\* handler ends with the exception.
PauseReplyDone(outcome) ==
    /\ cmd.op = "pause_reply"
    /\ UNCHANGED opsLeft
    /\ cmd' = IdleCmd
    /\ ev' = Event("PauseReplyDone", NoMsg, outcome)
    /\ UNCHANGED <<now, globals, remote, serverETags, jobs, tick>>
    /\ IF outcome = "delivered" THEN save_state ELSE UNCHANGED file

\* set_interval_cmd without a numeric argument (lines 360-362)
SetIntervalRejected ==
    /\ CmdStart
    /\ ev' = Event("SetIntervalRejected", Reply("rejected", MAIN_CHAT_ID), None)
    /\ UNCHANGED <<now, globals, file, remote, serverETags, jobs, tick, cmd>>

\* set_language_cmd (lines 377-392)
SetLanguage(arg) ==
    LET rejected == Lower(arg) \notin {"en", "ua"} IN
    /\ CmdStart
    /\ BOT_LANGUAGE' = IF rejected THEN BOT_LANGUAGE ELSE Lower(arg)
    /\ ev' = Event("SetLanguage",
                   Reply(IF rejected THEN "rejected" ELSE "ack", MAIN_CHAT_ID),
                   None)
    /\ UNCHANGED <<now, GAME_ID, CURRENT_GAME_URL, LAST_TURN_PLAYER,
                   MAIN_CHAT_ID, NOTIFY_PAUSED, AVAILABLE_NATIONS,
                   PLAYER_LOGINS, PLAYER_NOTIFICATION_STATE, ETAG_CACHE,
                   MONITOR_INTERVAL_SECONDS_DEFAULT, last_error_time_by_chat,
                   remote, serverETags, jobs, tick, cmd>>
    /\ IF rejected THEN UNCHANGED file ELSE save_state

\* start (lines 290-295)
Start(chat) ==
    /\ CmdStart
    /\ MAIN_CHAT_ID' = chat
    /\ ev' = Event("Start", Reply("ack", chat), None)
    /\ UNCHANGED <<now, GAME_ID, CURRENT_GAME_URL, LAST_TURN_PLAYER,
                   NOTIFY_PAUSED, AVAILABLE_NATIONS, PLAYER_LOGINS,
                   PLAYER_NOTIFICATION_STATE, ETAG_CACHE, BOT_LANGUAGE,
                   MONITOR_INTERVAL_SECONDS_DEFAULT, last_error_time_by_chat,
                   remote, serverETags, jobs, tick, cmd>>
    /\ save_state

\* next((n for n in AVAILABLE_NATIONS if nation_input_upper in n.upper()), None)
RECURSIVE FirstContaining(_, _)
FirstContaining(nations, needle) ==
    IF nations = <<>> THEN None
    ELSE IF Contains(Upper(Head(nations)), needle) THEN Head(nations)
         ELSE FirstContaining(Tail(nations), needle)

\* subscribe (lines 394-425); nation_input None: fewer than two arguments.
Subscribe(chat, nation_input, username_raw) ==
    LET found == FirstContaining(AVAILABLE_NATIONS, Upper(nation_input))
        rejected == \/ nation_input = None
                    \/ ~StartsWithAt(username_raw)
                    \/ found = None
    IN
    /\ CmdStart
    /\ MAIN_CHAT_ID' = chat
    /\ PLAYER_LOGINS' = IF rejected THEN PLAYER_LOGINS
                        ELSE ItemsPut(PLAYER_LOGINS, normalize(found),
                                      username_raw)
    /\ ev' = Event("Subscribe",
                   [Reply(IF rejected THEN "rejected" ELSE "ack", chat)
                      EXCEPT !.nation = IF rejected THEN None ELSE found,
                             !.login = IF rejected THEN None ELSE username_raw],
                   None)
    /\ UNCHANGED <<now, GAME_ID, CURRENT_GAME_URL, LAST_TURN_PLAYER,
                   NOTIFY_PAUSED, AVAILABLE_NATIONS,
                   PLAYER_NOTIFICATION_STATE, ETAG_CACHE, BOT_LANGUAGE,
                   MONITOR_INTERVAL_SECONDS_DEFAULT, last_error_time_by_chat,
                   remote, serverETags, jobs, tick, cmd>>
    /\ IF rejected THEN UNCHANGED file ELSE save_state

\* next((k for k, v in PLAYER_LOGINS.items() if v == username), None)
RECURSIVE FirstKeyOf(_, _)
FirstKeyOf(items, username) ==
    IF items = <<>> THEN None
    ELSE IF Head(items).v = username THEN Head(items).k
         ELSE FirstKeyOf(Tail(items), username)

\* del PLAYER_LOGINS[found_key]
ItemsDel(items, k) == SelectSeq(items, LAMBDA e : e.k # k)

\* unsubscribe (lines 427-440)
Unsubscribe(username) ==
    LET found_key == IF StartsWithAt(username)
                     THEN FirstKeyOf(PLAYER_LOGINS, username) ELSE None
        rejected == found_key = None
    IN
    /\ CmdStart
    /\ PLAYER_LOGINS' = IF rejected THEN PLAYER_LOGINS
                        ELSE ItemsDel(PLAYER_LOGINS, found_key)
    /\ ev' = Event("Unsubscribe",
                   [Reply(IF rejected THEN "rejected" ELSE "ack", MAIN_CHAT_ID)
                      EXCEPT !.login = username], None)
    /\ UNCHANGED <<now, GAME_ID, CURRENT_GAME_URL, LAST_TURN_PLAYER,
                   MAIN_CHAT_ID, NOTIFY_PAUSED, AVAILABLE_NATIONS,
                   PLAYER_NOTIFICATION_STATE, ETAG_CACHE, BOT_LANGUAGE,
                   MONITOR_INTERVAL_SECONDS_DEFAULT, last_error_time_by_chat,
                   remote, serverETags, jobs, tick, cmd>>
    /\ IF rejected THEN UNCHANGED file ELSE save_state

\* The process ends, whatever it was doing, and is started again: the module
\* globals are initialised (lines 58-70), main() runs load_state and installs
\* the monitor job with the loaded interval (lines 663, 687-690).
Restart ==
    /\ opsLeft > 0
    /\ opsLeft' = opsLeft - 1
    /\ GAME_ID' = load_state.GAME_ID
    /\ CURRENT_GAME_URL' = load_state.CURRENT_GAME_URL
    /\ MAIN_CHAT_ID' = load_state.MAIN_CHAT_ID
    /\ PLAYER_LOGINS' = load_state.PLAYER_LOGINS
    /\ LAST_TURN_PLAYER' = load_state.LAST_TURN_PLAYER
    /\ BOT_LANGUAGE' = load_state.BOT_LANGUAGE
    /\ MONITOR_INTERVAL_SECONDS_DEFAULT' = load_state.MONITOR_INTERVAL
    /\ NOTIFY_PAUSED' = FALSE
    /\ AVAILABLE_NATIONS' = <<>>
    /\ PLAYER_NOTIFICATION_STATE' = EmptyDict
    /\ ETAG_CACHE' = EmptyDict
    /\ last_error_time_by_chat' = EmptyDict
    /\ jobs' = {[id |-> 1, interval |-> load_state.MONITOR_INTERVAL]}
    /\ tick' = [j \in JobIds |-> IdleTick]
    /\ cmd' = IdleCmd
    /\ ev' = Event("Restart", NoMsg, None)
    /\ UNCHANGED <<now, file, remote, serverETags>>

\* ------------------------------------------------------------------- Next
Next ==
    \/ Advance
    \/ \E p \in PublishedNames, withStart \in BOOLEAN : RemoteChange(p, withStart)
    \/ \E j \in JobIds : TickStart(j)
    \/ \E j \in JobIds, kind \in FetchFailures : TickFetchFailed(j, kind)
    \/ \E j \in JobIds, o \in SendOutcomes : TickSendErrorDone(j, o)
    \/ \E j \in JobIds : TickNoPlayer(j)
    \/ \E j \in JobIds : TickFirstObservation(j)
    \/ \E j \in JobIds : TickTurnChanged(j)
    \/ \E j \in JobIds, o \in SendOutcomes : TickSendMainDone(j, o)
    \/ \E j \in JobIds : TickSameHolder(j)
    \/ \E j \in JobIds, o \in SendOutcomes : TickSendReminderDone(j, o)
    \/ \E chat \in ChatIds, g \in GameIds \cup {None} : SetGameStart(chat, g)
    \/ \E kind \in FetchFailures \cup {"not_modified"} : SetGameFetchFailed(kind)
    \/ SetGameFetched
    \/ \E n \in Intervals : SetInterval(n)
    \/ PauseToggle
    \/ \E o \in SendOutcomes : PauseReplyDone(o)

Spec == Init /\ [][Next]_vars

\* Every handler, the monitor job and the restart, with a remote game that
\* may also publish a document without currentPlayer, in the runs that take
\* less than one ClockStep.
NextAll ==
    \/ \E p \in PublishedNames \cup {None}, withStart \in BOOLEAN :
          RemoteChange(p, withStart)
    \/ \E j \in JobIds : TickStart(j)
    \/ \E j \in JobIds, kind \in FetchFailures : TickFetchFailed(j, kind)
    \/ \E j \in JobIds, o \in SendOutcomes : TickSendErrorDone(j, o)
    \/ \E j \in JobIds : TickNoPlayer(j)
    \/ \E j \in JobIds : TickFirstObservation(j)
    \/ \E j \in JobIds : TickTurnChanged(j)
    \/ \E j \in JobIds, o \in SendOutcomes : TickSendMainDone(j, o)
    \/ \E j \in JobIds : TickSameHolder(j)
    \/ \E j \in JobIds, o \in SendOutcomes : TickSendReminderDone(j, o)
    \/ \E chat \in ChatIds, g \in GameIds \cup {None} : SetGameStart(chat, g)
    \/ \E kind \in FetchFailures \cup {"not_modified"} : SetGameFetchFailed(kind)
    \/ SetGameFetched
    \/ \E n \in Intervals : SetInterval(n)
    \/ SetIntervalRejected
    \/ PauseToggle
    \/ \E o \in SendOutcomes : PauseReplyDone(o)
    \/ \E arg \in Languages : SetLanguage(arg)
    \/ \E chat \in ChatIds : Start(chat)
    \/ \E chat \in ChatIds, n \in NationInputs \cup {None}, u \in Usernames :
          Subscribe(chat, n, u)
    \/ \E u \in Usernames : Unsubscribe(u)
    \/ Restart

SpecAll == Init /\ [][NextAll]_vars

\* The runs C3 is about: "/setgame g1" has been handled in the chat (lines
\* 300-353), and from then on the clock runs and the monitor job main()
\* installed ticks at least once in every ClockStep: no fetch fails, no
\* command is given, the remote game stays as it is.
InitSteady ==
    /\ now = BootTime
    /\ GAME_ID = "g1"
    /\ CURRENT_GAME_URL = GameUrl("g1")
    /\ LAST_TURN_PLAYER = None
    /\ MAIN_CHAT_ID \in ChatIds
    /\ NOTIFY_PAUSED = FALSE
    /\ AVAILABLE_NATIONS = HumanCivs(Civilizations("g1"))
    /\ PLAYER_LOGINS = EmptyDict
    /\ PLAYER_NOTIFICATION_STATE = EmptyDict
    /\ serverETags \in BOOLEAN
    /\ ETAG_CACHE = IF serverETags THEN Put(EmptyDict, GameUrl("g1"), 1)
                    ELSE EmptyDict
    /\ BOT_LANGUAGE = "en"
    /\ MONITOR_INTERVAL_SECONDS_DEFAULT = MONITOR_INTERVAL_DEFAULT
    /\ last_error_time_by_chat = EmptyDict
    /\ file = << Snapshot(GAME_ID, CURRENT_GAME_URL, MAIN_CHAT_ID,
                          PLAYER_LOGINS, LAST_TURN_PLAYER, BOT_LANGUAGE,
                          MONITOR_INTERVAL_SECONDS_DEFAULT) >>
    /\ remote = [currentPlayer |-> "Rome",
                 currentTurnStartTime |-> (BootTime - ClockStep) * 1000,
                 etag |-> 1]
    /\ jobs = {[id |-> 1, interval |-> MONITOR_INTERVAL_DEFAULT]}
    /\ tick = [j \in JobIds |-> IdleTick]
    /\ cmd = IdleCmd
    /\ ev = Quiet
    /\ opsLeft = MaxOpsSteady

\* The job's interval (60 s, lines 689-690) is below ClockStep: a monitor run
\* has ended between two readings of the clock that differ.
AdvanceSteady ==
    /\ ev.op \in {"TickNoPlayer", "TickFirstObservation", "TickSameHolder",
                  "TickSendReminderDone"}
    /\ \A j \in JobIds : tick[j].pc = "idle"
    /\ AdvanceTo(MaxTimeSteady)

NextSteady ==
    \/ AdvanceSteady
    \/ \E j \in JobIds : TickStart(j)
    \/ \E j \in JobIds : TickNoPlayer(j)
    \/ \E j \in JobIds : TickFirstObservation(j)
    \/ \E j \in JobIds : TickSameHolder(j)
    \/ \E j \in JobIds, o \in SendOutcomes : TickSendReminderDone(j, o)

SpecSteady == InitSteady /\ [][NextSteady]_vars

\* The runs C20 is about: "/setgame g1" has been handled, the clock runs for
\* longer than the whole reminder schedule, the job of main() ticks at least
\* once in every ClockStep unless a /pause was handled in it, /pause is given
\* at any moment and the server may publish another player.
AdvanceLong ==
    /\ ev.op \in {"TickNoPlayer", "TickFirstObservation", "TickSameHolder",
                  "TickSendReminderDone", "TickSendMainDone", "PauseReplyDone"}
    /\ \A j \in JobIds : tick[j].pc = "idle"
    /\ CmdIdle
    /\ AdvanceTo(MaxTimeSteady)

NextLong ==
    \/ AdvanceLong
    \/ \E p \in {"Rome", "Egypt"} : RemoteChange(p, TRUE)
    \/ \E j \in JobIds : TickStart(j)
    \/ \E j \in JobIds : TickNoPlayer(j)
    \/ \E j \in JobIds : TickFirstObservation(j)
    \/ \E j \in JobIds : TickTurnChanged(j)
    \/ \E j \in JobIds, o \in SendOutcomes : TickSendMainDone(j, o)
    \/ \E j \in JobIds : TickSameHolder(j)
    \/ \E j \in JobIds, o \in SendOutcomes : TickSendReminderDone(j, o)
    \/ PauseToggle
    \/ \E o \in SendOutcomes : PauseReplyDone(o)

SpecLong == InitSteady /\ [][NextLong]_vars

\* ================================================================ properties
TickOps == {"TickStart", "TickFetchFailed", "TickSendErrorDone",
            "TickNoPlayer", "TickFirstObservation", "TickTurnChanged",
            "TickSendMainDone", "TickSameHolder", "TickSendReminderDone"}
CommandOps == {"SetGameStart", "SetGameFetchFailed", "SetGameFetched",
               "SetInterval", "PauseToggle", "PauseReplyDone"}
TicksInFlight == {j \in JobIds : tick[j].pc # "idle"}

\* C1: the steps of a tick whose fetch failed (the failure itself, and the
\* return of the error message's send) leave LAST_TURN_PLAYER, every entry of
\* PLAYER_NOTIFICATION_STATE, AVAILABLE_NATIONS, the rest of the session and
\* the state file as they were; the only message such a tick sends is one
\* error message, and only when the debounce window has passed.
C1_FailedFetchKeepsState ==
    [][ev'.op \in {"TickFetchFailed", "TickSendErrorDone"} =>
          /\ LAST_TURN_PLAYER' = LAST_TURN_PLAYER
          /\ PLAYER_NOTIFICATION_STATE' = PLAYER_NOTIFICATION_STATE
          /\ AVAILABLE_NATIONS' = AVAILABLE_NATIONS
          /\ <<GAME_ID, CURRENT_GAME_URL, PLAYER_LOGINS, NOTIFY_PAUSED>>'
               = <<GAME_ID, CURRENT_GAME_URL, PLAYER_LOGINS, NOTIFY_PAUSED>>
          /\ file' = file
          /\ ev'.msg.kind \in {"none", "error"}
          /\ ev'.msg.kind = "error" =>
                /\ ev'.op = "TickFetchFailed"
                /\ ev'.msg.to = MAIN_CHAT_ID
                /\ \/ ~Has(last_error_time_by_chat, MAIN_CHAT_ID)
                   \/ now - last_error_time_by_chat[MAIN_CHAT_ID]
                        >= ERROR_DEBOUNCE_SECONDS]_vars

\* A failed fetch has just sent its error message while a turn holder, its
\* reminder state and a roster were known.
C1_Witness ==
    /\ ev.op = "TickFetchFailed"
    /\ ev.msg.kind = "error"
    /\ LAST_TURN_PLAYER # None
    /\ Has(PLAYER_NOTIFICATION_STATE, LAST_TURN_PLAYER)
    /\ AVAILABLE_NATIONS # <<>>

\* What C2 asks of the state a tick leaves behind for the player k it saw
\* take the turn at time t.
HolderResetTo(k, t) ==
    /\ LAST_TURN_PLAYER' = k
    /\ Has(PLAYER_NOTIFICATION_STATE', k)
    /\ PLAYER_NOTIFICATION_STATE'[k].next_reminder_index = 0
    /\ PLAYER_NOTIFICATION_STATE'[k].last_reminded_time = t
    /\ PLAYER_NOTIFICATION_STATE'[k].last_turn_change_time = t

\* C2: when a tick that saw a player other than LAST_TURN_PLAYER ends,
\* LAST_TURN_PLAYER is that player, the player's next_reminder_index is 0 and
\* both its timestamps are the start of the new turn (the payload's
\* currentTurnStartTime when present, else now).
C2_TurnChangeResets ==
    [][\A j \in JobIds :
          /\ (ev'.op = "TickTurnChanged" /\ tick[j].pc = "fetch"
                /\ tick'[j].pc = "idle")
             => HolderResetTo(normalize(current_player_raw(j)),
                              IF Data(j).currentTurnStartTime # 0
                              THEN Data(j).currentTurnStartTime \div 1000
                              ELSE now)
          /\ (ev'.op = "TickSendMainDone" /\ tick[j].pc = "send_main"
                /\ tick'[j].pc = "idle")
             => HolderResetTo(tick[j].norm, tick[j].ts)]_vars

\* C3: while the holder stays the same, a tick dispatches the reminder of the
\* holder's next index exactly when last_turn_change_time + schedule[index]
\* has been reached, and the tick that dispatched an index leaves a greater
\* one behind, so that no index is dispatched twice.
C3_RemindersAtOffsetsFromTurnStart ==
    [][\A j \in JobIds :
          /\ (/\ ev'.op = "TickSameHolder"
              /\ tick[j].pc = "fetch" /\ tick'[j].pc # "fetch"
              /\ MAIN_CHAT_ID # None
              /\ Has(PLAYER_NOTIFICATION_STATE, LAST_TURN_PLAYER)
              /\ PLAYER_NOTIFICATION_STATE[LAST_TURN_PLAYER].next_reminder_index
                   < Len(REMINDER_SCHEDULE))
             => LET st == PLAYER_NOTIFICATION_STATE[LAST_TURN_PLAYER] IN
                (ev'.msg.kind = "reminder") <=>
                   (now >= st.last_turn_change_time
                             + REMINDER_SCHEDULE[st.next_reminder_index + 1])
          /\ (ev'.op = "TickSendReminderDone" /\ tick[j].pc = "send_reminder"
                /\ tick'[j].pc = "idle")
             => /\ Has(PLAYER_NOTIFICATION_STATE', tick[j].norm)
                /\ PLAYER_NOTIFICATION_STATE'[tick[j].norm].next_reminder_index
                     > tick[j].idx]_vars

\* C4: a tick that finds the holder unchanged and the pause flag off
\* dispatches a reminder if and only if next_reminder_index < len(schedule)
\* and now >= last_reminded_time + schedule[next_reminder_index]; when the
\* tick that dispatched ends with the holder still the one it saw, the
\* holder's last_reminded_time is now, its
\* next_reminder_index is one more than the index dispatched, and the state
\* file holds the current snapshot; a tick that does not dispatch leaves
\* PLAYER_NOTIFICATION_STATE as it was.
C4_ReminderDecisionAndUpdate ==
    [][\A j \in JobIds :
          /\ (/\ ev'.op = "TickSameHolder"
              /\ tick[j].pc = "fetch" /\ tick'[j].pc # "fetch"
              /\ ~NOTIFY_PAUSED
              /\ MAIN_CHAT_ID # None
              /\ Has(PLAYER_NOTIFICATION_STATE, LAST_TURN_PLAYER))
             => LET st == PLAYER_NOTIFICATION_STATE[LAST_TURN_PLAYER]
                    i == st.next_reminder_index
                    due == /\ i < Len(REMINDER_SCHEDULE)
                           /\ now >= st.last_reminded_time
                                       + REMINDER_SCHEDULE[i + 1]
                IN  /\ (ev'.msg.kind = "reminder") <=> due
                    /\ ~due => PLAYER_NOTIFICATION_STATE'
                                 = PLAYER_NOTIFICATION_STATE
          /\ (ev'.op = "TickSendReminderDone" /\ tick[j].pc = "send_reminder"
                /\ tick'[j].pc = "idle" /\ LAST_TURN_PLAYER = tick[j].norm)
             => /\ Has(PLAYER_NOTIFICATION_STATE', tick[j].norm)
                /\ PLAYER_NOTIFICATION_STATE'[tick[j].norm].last_reminded_time
                     = now
                /\ PLAYER_NOTIFICATION_STATE'[tick[j].norm].next_reminder_index
                     = tick[j].idx + 1
                /\ file' # <<>>
                /\ file'[1].LAST_TURN_PLAYER = LAST_TURN_PLAYER']_vars

\* C5: while NOTIFY_PAUSED is set, no step of a tick sends a turn-change or a
\* reminder message and none raises a next_reminder_index.
C5_PausedTicksAreSilent ==
    [][(NOTIFY_PAUSED /\ ev'.op \in TickOps) =>
          /\ ev'.msg.kind \notin {"turnChange", "reminder"}
          /\ \A k \in DOMAIN PLAYER_NOTIFICATION_STATE
                    \cap DOMAIN PLAYER_NOTIFICATION_STATE' :
                PLAYER_NOTIFICATION_STATE'[k].next_reminder_index
                   <= PLAYER_NOTIFICATION_STATE[k].next_reminder_index]_vars

\* C6: right after /pause has switched the pause flag off while a turn
\* holder was known, the holder's next_reminder_index is 0 and both its
\* timestamps are the time of the resume, so that its next reminder is due
\* schedule[0] later and not before.
C6_ResumeRearmsHolder ==
    (ev.op = "PauseToggle" /\ ev.msg.kind = "resumed"
       /\ LAST_TURN_PLAYER # None)
    => /\ Has(PLAYER_NOTIFICATION_STATE, LAST_TURN_PLAYER)
       /\ LET st == PLAYER_NOTIFICATION_STATE[LAST_TURN_PLAYER] IN
          /\ st.next_reminder_index = 0
          /\ st.last_reminded_time = now
          /\ st.last_turn_change_time = now
          /\ ReminderDue(st, now + REMINDER_SCHEDULE[1])
          /\ ~ReminderDue(st, now + REMINDER_SCHEDULE[1] - 1)

\* /pause has just resumed notifications, later than the process started,
\* for a known holder that has no subscription.
C6_Witness ==
    /\ ev.op = "PauseToggle"
    /\ ev.msg.kind = "resumed"
    /\ LAST_TURN_PLAYER # None
    /\ ~ItemsHas(PLAYER_LOGINS, LAST_TURN_PLAYER)
    /\ ~NOTIFY_PAUSED
    /\ now > BootTime

\* C7: an error message that is delivered to a chat was decided at least
\* ERROR_DEBOUNCE_SECONDS after the error message delivered to that chat
\* before it.
C7_ErrorsAWindowApart ==
    [][\A j \in JobIds :
          (/\ ev'.op = "TickSendErrorDone" /\ ev'.outcome = "delivered"
           /\ tick[j].pc = "send_error" /\ tick'[j].pc = "idle"
           /\ Has(last_error_time_by_chat, tick[j].chat))
          => tick[j].errNow - last_error_time_by_chat[tick[j].chat]
               >= ERROR_DEBOUNCE_SECONDS]_vars

\* The state C8 names: game session, roster, subscriptions, last active
\* player, reminder states and pause flag.
CoreState == <<GAME_ID, CURRENT_GAME_URL, AVAILABLE_NATIONS, PLAYER_LOGINS,
               LAST_TURN_PLAYER, PLAYER_NOTIFICATION_STATE, NOTIFY_PAUSED>>

\* C8: no step of a command handler writes the core state while a monitor
\* tick is between its start and its end, and no step of a tick is taken
\* while a command handler is between its start and its end.
C8_CommandsAndTicksExclusive ==
    [][/\ (ev'.op \in CommandOps /\ CoreState' # CoreState)
            => TicksInFlight = {}
       /\ ev'.op \in TickOps => cmd.op = "idle"]_vars

\* C9: at most one run of monitor_game_state is in flight at any time.
C9_AtMostOneTickInFlight == Cardinality(TicksInFlight) <= 1

\* C10: /setinterval leaves exactly one monitor job, a new one with the new
\* interval, and none of the jobs there were; it does not touch a tick in
\* flight; and a tick is only ever started by a job the queue holds, so never
\* by a removed one.
C10_SetIntervalReplacesSchedule ==
    [][/\ ev'.op = "SetInterval" =>
            /\ Cardinality(jobs') = 1
            /\ \A job \in jobs' :
                  /\ job.interval = MONITOR_INTERVAL_SECONDS_DEFAULT'
                  /\ job.id \notin JobIdsOf(jobs)
            /\ tick' = tick
       /\ ev'.op = "TickStart" =>
            \A j \in JobIds :
               (tick[j].pc = "idle" /\ tick'[j].pc # "idle")
                  => j \in JobIdsOf(jobs)]_vars

\* /setinterval has just replaced the monitor job while a tick of the old
\* job was in flight.
C10_Witness ==
    /\ ev.op = "SetInterval"
    /\ \E j \in TicksInFlight : j \notin JobIdsOf(jobs)

\* The globals save_state writes, as load_state names them.
Persisted ==
    [GAME_ID |-> GAME_ID, CURRENT_GAME_URL |-> CURRENT_GAME_URL,
     MAIN_CHAT_ID |-> MAIN_CHAT_ID, PLAYER_LOGINS |-> PLAYER_LOGINS,
     LAST_TURN_PLAYER |-> LAST_TURN_PLAYER, BOT_LANGUAGE |-> BOT_LANGUAGE,
     MONITOR_INTERVAL |-> MONITOR_INTERVAL_SECONDS_DEFAULT]

\* C11: a restart leaves the game session, the roster, the subscriptions,
\* LAST_TURN_PLAYER, PLAYER_NOTIFICATION_STATE and NOTIFY_PAUSED as they were.
C11_RestartKeepsCoreState ==
    [][ev'.op = "Restart" =>
          <<GAME_ID, CURRENT_GAME_URL, MAIN_CHAT_ID, AVAILABLE_NATIONS,
            PLAYER_LOGINS, LAST_TURN_PLAYER, PLAYER_NOTIFICATION_STATE,
            NOTIFY_PAUSED>>'
          = <<GAME_ID, CURRENT_GAME_URL, MAIN_CHAT_ID, AVAILABLE_NATIONS,
              PLAYER_LOGINS, LAST_TURN_PLAYER, PLAYER_NOTIFICATION_STATE,
              NOTIFY_PAUSED>>]_vars

\* C12: whenever the state file is written, loading it gives every persisted
\* field (game id, URL, chat, subscriptions, last player, language, interval)
\* the value the global had at the save; and a restart gives the globals the
\* fields of the file as it was last written.
C12_SaveLoadRoundTrip ==
    [][/\ file' # file => load_state' = Persisted'
       /\ ev'.op = "Restart" =>
            /\ file' = file
            /\ file # <<>> => Persisted' = load_state]_vars

\* A restart has just loaded a file with a game, a subscription and a last
\* player.
C12_Witness ==
    /\ ev.op = "Restart"
    /\ file # <<>>
    /\ GAME_ID # None
    /\ PLAYER_LOGINS # <<>>
    /\ LAST_TURN_PLAYER # None

\* C13: the tick that makes the first observation sends nothing, makes the
\* normalized player LAST_TURN_PLAYER with next_reminder_index 0 and both
\* timestamps the payload's turn start or now, and writes the state file; a
\* tick that then sees another player, with a chat set and not paused, sends
\* one turn-change message to the chat, and nothing more when its send ends.
C13_FirstObservationThenChange ==
    [][\A j \in JobIds :
          /\ (ev'.op = "TickFirstObservation" /\ tick[j].pc = "fetch"
                /\ tick'[j].pc = "idle")
             => /\ ev'.msg.kind = "none"
                /\ HolderResetTo(Upper(Data(j).currentPlayer),
                                 IF Data(j).currentTurnStartTime # 0
                                 THEN Data(j).currentTurnStartTime \div 1000
                                 ELSE now)
                /\ file' # <<>>
                /\ file'[1].LAST_TURN_PLAYER = Upper(Data(j).currentPlayer)
          /\ (ev'.op = "TickTurnChanged" /\ tick[j].pc = "fetch"
                /\ tick'[j].pc # "fetch"
                /\ MAIN_CHAT_ID # None /\ ~NOTIFY_PAUSED)
             => /\ ev'.msg.kind = "turnChange"
                /\ ev'.msg.to = MAIN_CHAT_ID
                /\ ev'.msg.nation = Data(j).currentPlayer
                /\ LAST_TURN_PLAYER' = Upper(Data(j).currentPlayer)
                /\ LAST_TURN_PLAYER' # LAST_TURN_PLAYER
          /\ (ev'.op = "TickSendMainDone" /\ tick[j].pc = "send_main")
             => ev'.msg.kind = "none"]_vars

\* With "Rome" subscribed, the tick after the first observation has just
\* announced the turn of Egypt, which has no subscription.
C13_Witness ==
    /\ ev.op = "TickTurnChanged"
    /\ ev.msg.kind = "turnChange"
    /\ ev.msg.nation = "Egypt"
    /\ ev.msg.login = None
    /\ LAST_TURN_PLAYER = "EGYPT"
    /\ ItemsHas(PLAYER_LOGINS, "ROME")
    /\ Has(PLAYER_NOTIFICATION_STATE, "ROME")

\* C14: a tick that finds no current player ("not modified" without a
\* LAST_TURN_PLAYER, or a payload without currentPlayer) changes no global
\* but the ETag cache, leaves LAST_TURN_PLAYER as it is, sends nothing and
\* does not write the state file.
C14_IndeterminateTickIsNoOp ==
    [][ev'.op = "TickNoPlayer" =>
          /\ <<GAME_ID, CURRENT_GAME_URL, LAST_TURN_PLAYER, MAIN_CHAT_ID,
               NOTIFY_PAUSED, AVAILABLE_NATIONS, PLAYER_LOGINS,
               PLAYER_NOTIFICATION_STATE, BOT_LANGUAGE,
               MONITOR_INTERVAL_SECONDS_DEFAULT, last_error_time_by_chat>>'
             = <<GAME_ID, CURRENT_GAME_URL, LAST_TURN_PLAYER, MAIN_CHAT_ID,
                 NOTIFY_PAUSED, AVAILABLE_NATIONS, PLAYER_LOGINS,
                 PLAYER_NOTIFICATION_STATE, BOT_LANGUAGE,
                 MONITOR_INTERVAL_SECONDS_DEFAULT, last_error_time_by_chat>>
          /\ file' = file
          /\ ev'.msg.kind = "none"]_vars

\* A tick has just found a payload without currentPlayer while a last player
\* with a reminder state was known.
C14_Witness ==
    /\ ev.op = "TickNoPlayer"
    /\ remote.currentPlayer = None
    /\ LAST_TURN_PLAYER # None
    /\ Has(PLAYER_NOTIFICATION_STATE, LAST_TURN_PLAYER)

\* C15: when /setgame succeeds, the session is the new game, subscriptions
\* and reminder states are empty, LAST_TURN_PLAYER is None and the roster is
\* the human civilizations of the payload; and PLAYER_LOGINS is changed by
\* no step but that one, a subscribe and an unsubscribe.
C15_SetGameResetsDerivedState ==
    [][/\ ev'.op = "SetGameFetched" =>
            /\ GAME_ID' = cmd.game
            /\ CURRENT_GAME_URL' = GameUrl(cmd.game)
            /\ PLAYER_LOGINS' = <<>>
            /\ DOMAIN PLAYER_NOTIFICATION_STATE' = {}
            /\ LAST_TURN_PLAYER' = None
            /\ AVAILABLE_NATIONS' = IF cmd.game = "g1"
                                    THEN <<"Rome", "Egypt">> ELSE <<"Inca">>
       /\ ev'.op \notin {"SetGameFetched", "Subscribe", "Unsubscribe"}
            => PLAYER_LOGINS' = PLAYER_LOGINS]_vars

\* /setgame g2 has just succeeded in a process that watched g1 before.
C15_Witness ==
    /\ ev.op = "SetGameFetched"
    /\ GAME_ID = "g2"
    /\ Has(ETAG_CACHE, GameUrl("g1"))
    /\ AVAILABLE_NATIONS = <<"Inca">>
    /\ \E j \in JobIds : tick[j].pc # "idle"

\* The handlers' replies to a user-input error.
UserInputRejections == {"SetGameStart", "SetIntervalRejected", "SetLanguage",
                        "Subscribe", "Unsubscribe"}

\* C16: a command rejected as a user-input error changes no global and not
\* the state file.
C16_RejectedCommandChangesNothing ==
    [][(ev'.op \in UserInputRejections /\ ev'.msg.kind = "rejected") =>
          /\ globals' = globals
          /\ file' = file]_vars

\* C17: whenever an acknowledgment or a notification is sent, the state file
\* exists and holds the values the persisted globals have at that moment.
C17_SnapshotBeforeAcknowledgment ==
    [][ev'.msg.kind \in {"ack", "paused", "resumed", "turnChange", "reminder"}
          => /\ file' # <<>>
             /\ load_state' = Persisted']_vars

\* C18: when the send of a tick fails, the tick ends all the same, the job
\* stays installed, and the update of the branch is made and saved: the
\* reminder state of the new holder after a turn-change message, the next
\* index and last_reminded_time = now after a reminder (written to the state
\* the tick read, when that is still the holder's), nothing after an error
\* message.
C18_SendFailureDoesNotAbortTick ==
    [][\A j \in JobIds :
          (ev'.outcome = "failed" /\ tick[j].pc # "idle"
             /\ tick'[j].pc = "idle" /\ ev'.op \in TickOps)
          => /\ jobs' = jobs
             /\ ev'.op = "TickSendMainDone" =>
                   /\ LAST_TURN_PLAYER' = LAST_TURN_PLAYER
                   /\ Has(PLAYER_NOTIFICATION_STATE', tick[j].norm)
                   /\ LET st == PLAYER_NOTIFICATION_STATE'[tick[j].norm] IN
                      /\ st.next_reminder_index = 0
                      /\ st.last_reminded_time = tick[j].ts
                      /\ st.last_turn_change_time = tick[j].ts
                   /\ load_state' = Persisted'
             /\ (ev'.op = "TickSendReminderDone" /\ tick[j].live) =>
                   /\ LET st == PLAYER_NOTIFICATION_STATE'[tick[j].norm] IN
                      /\ st.next_reminder_index = tick[j].idx + 1
                      /\ st.last_reminded_time = now
                   /\ load_state' = Persisted'
             /\ ev'.op = "TickSendErrorDone" =>
                   /\ globals' = globals
                   /\ file' = file]_vars

\* The send of the first reminder has just failed, and the holder's index
\* is 1.
C18_Witness ==
    /\ ev.op = "TickSendReminderDone"
    /\ ev.outcome = "failed"
    /\ LAST_TURN_PLAYER # None
    /\ Has(PLAYER_NOTIFICATION_STATE, LAST_TURN_PLAYER)
    /\ PLAYER_NOTIFICATION_STATE[LAST_TURN_PLAYER].next_reminder_index = 1

\* The handle subscribed for the player published as name, whatever the case
\* of the name and of the key.
SubscribedHandle(name) ==
    LET hits == {i \in 1..Len(PLAYER_LOGINS) :
                   Upper(PLAYER_LOGINS[i].k) = Upper(name)}
    IN IF hits = {} THEN None
       ELSE PLAYER_LOGINS[CHOOSE i \in hits : TRUE].v

\* C19: a turn-change message carries the handle subscribed for the upper-case
\* form of the published player when there is one and only the nation's name
\* otherwise; a reminder does the same for the holder; and sending either
\* leaves the subscriptions as they are.
C19_HandleIffSubscribed ==
    [][\A j \in JobIds :
          (tick[j].pc = "fetch" /\ tick'[j].pc # "fetch"
             /\ ev'.msg.kind \in {"turnChange", "reminder"})
          => /\ ev'.msg.login =
                   SubscribedHandle(IF Data(j).not_modified
                                    THEN LAST_TURN_PLAYER
                                    ELSE Data(j).currentPlayer)
             /\ ev'.msg.login = None => ev'.msg.nation # None
             /\ PLAYER_LOGINS' = PLAYER_LOGINS]_vars

\* The turn of the player published as "ROME" has just been announced with
\* the handle that was subscribed for the roster's "Rome".
C19_Witness ==
    /\ ev.op = "TickTurnChanged"
    /\ ev.msg.kind = "turnChange"
    /\ ev.msg.nation = "ROME"
    /\ ev.msg.login = "@alice"
    /\ AVAILABLE_NATIONS = <<"Rome", "Egypt">>

\* The holder's reminders are used up.
Exhausted ==
    /\ LAST_TURN_PLAYER # None
    /\ Has(PLAYER_NOTIFICATION_STATE, LAST_TURN_PLAYER)
    /\ PLAYER_NOTIFICATION_STATE[LAST_TURN_PLAYER].next_reminder_index
         = Len(REMINDER_SCHEDULE)

\* C20 as stated: once the holder's next_reminder_index is the length of the
\* schedule it stays so, and no reminder is sent, until a turn change is
\* completed, whatever ticks and /pause commands are taken.
C20_NoReminderOnceExhausted ==
    [][Exhausted =>
          /\ ev'.msg.kind # "reminder"
          /\ (LAST_TURN_PLAYER' = LAST_TURN_PLAYER
                /\ ev'.op # "TickSendMainDone") => Exhausted']_vars

\* C20: a reminder is sent only while the holder's next_reminder_index is
\* below the length of the schedule; and once it equals the length it stays so
\* for that holder until a turn change is completed or notifications are
\* resumed after a pause.
C20_ExhaustedUntilChangeOrResume ==
    [][/\ ev'.msg.kind = "reminder" =>
            /\ LAST_TURN_PLAYER # None
            /\ Has(PLAYER_NOTIFICATION_STATE, LAST_TURN_PLAYER)
            /\ PLAYER_NOTIFICATION_STATE[LAST_TURN_PLAYER].next_reminder_index
                 < Len(REMINDER_SCHEDULE)
            /\ ev'.msg.idx
                 = PLAYER_NOTIFICATION_STATE[LAST_TURN_PLAYER].next_reminder_index
       /\ (Exhausted /\ LAST_TURN_PLAYER' = LAST_TURN_PLAYER) =>
            \/ Exhausted'
            \/ ev'.op = "PauseToggle" /\ NOTIFY_PAUSED /\ ~NOTIFY_PAUSED'
            \/ ev'.op = "TickSendMainDone"]_vars

\* A tick has just found the same holder with the reminders used up, a chat
\* set, notifications not paused and more than the first delay gone since the
\* last reminder, and has sent nothing.
C20_Witness ==
    /\ ev.op = "TickSameHolder"
    /\ ev.msg.kind = "none"
    /\ Exhausted
    /\ MAIN_CHAT_ID # None
    /\ ~NOTIFY_PAUSED
    /\ now >= PLAYER_NOTIFICATION_STATE[LAST_TURN_PLAYER].last_reminded_time
                + REMINDER_SCHEDULE[1]

\* C21: every next_reminder_index is within 0..len(REMINDER_SCHEDULE); while
\* LAST_TURN_PLAYER stays the same player its index does not fall, except to 0
\* when a turn change is completed or notifications are resumed; and a step
\* of a tick or of /pause leaves the entry of every player other than
\* LAST_TURN_PLAYER as it was.
C21_IndexMonotoneOthersInert ==
    [][/\ \A k \in DOMAIN PLAYER_NOTIFICATION_STATE' :
            PLAYER_NOTIFICATION_STATE'[k].next_reminder_index
              \in 0..Len(REMINDER_SCHEDULE)
       /\ (/\ LAST_TURN_PLAYER # None
           /\ LAST_TURN_PLAYER' = LAST_TURN_PLAYER
           /\ Has(PLAYER_NOTIFICATION_STATE, LAST_TURN_PLAYER)
           /\ Has(PLAYER_NOTIFICATION_STATE', LAST_TURN_PLAYER))
          => LET before == PLAYER_NOTIFICATION_STATE[LAST_TURN_PLAYER]
                 after == PLAYER_NOTIFICATION_STATE'[LAST_TURN_PLAYER]
             IN \/ after.next_reminder_index >= before.next_reminder_index
                \/ /\ after.next_reminder_index = 0
                   /\ ev'.op \in {"TickSendMainDone", "PauseToggle"}
       /\ ev'.op \in TickOps \cup {"PauseToggle", "PauseReplyDone"}
          => \A k \in DOMAIN PLAYER_NOTIFICATION_STATE
                        \cup DOMAIN PLAYER_NOTIFICATION_STATE' :
                k # LAST_TURN_PLAYER'
                => /\ Has(PLAYER_NOTIFICATION_STATE, k)
                   /\ Has(PLAYER_NOTIFICATION_STATE', k)
                   /\ PLAYER_NOTIFICATION_STATE'[k]
                        = PLAYER_NOTIFICATION_STATE[k]]_vars

\* C22: a tick that receives a payload with a current player and with human
\* civilizations ends the step with AVAILABLE_NATIONS equal to exactly those
\* civilizations, whether it is a first observation, a turn change or the
\* same holder.
C22_RosterReplacedByEveryFreshPayload ==
    [][\A j \in JobIds :
          (/\ tick[j].pc = "fetch"
           /\ ev'.op \in {"TickFirstObservation", "TickTurnChanged",
                          "TickSameHolder"}
           /\ tick'[j].pc # "fetch"
           /\ ~Data(j).not_modified)
          => LET humans == SelectSeq(Data(j).civilizations,
                                     LAMBDA c : c.playerType = "Human")
             IN AVAILABLE_NATIONS'
                  = [i \in 1..Len(humans) |-> humans[i].civName]]_vars

\* C23: a tick that finds LAST_TURN_PLAYER still the current player, a chat
\* set and notifications not paused, but no last_reminded_time for that
\* player, ends with a reminder state for the player whose last_reminded_time
\* is now, and with the state file written.
C23_MissingReminderStateRepaired ==
    [][\A j \in JobIds :
          (/\ tick[j].pc = "fetch"
           /\ ev'.op = "TickSameHolder"
           /\ tick'[j].pc # "fetch"
           /\ MAIN_CHAT_ID # None
           /\ ~NOTIFY_PAUSED
           /\ ~Has(PLAYER_NOTIFICATION_STATE, LAST_TURN_PLAYER))
          => /\ Has(PLAYER_NOTIFICATION_STATE', LAST_TURN_PLAYER)
             /\ PLAYER_NOTIFICATION_STATE'[LAST_TURN_PLAYER].last_reminded_time
                  = now
             /\ file' # <<>>
             /\ load_state' = Persisted']_vars

\* C24: ETAG_CACHE changes only in a step in which a fetch hands a payload
\* to its caller: a fetch that fails (in a tick or in /setgame) or that is
\* answered "not modified" leaves every cached ETag as it was.
C24_ETagOnlyFromDeliveredPayload ==
    [][/\ ev'.op \in {"TickFetchFailed", "SetGameFetchFailed"}
            => ETAG_CACHE' = ETAG_CACHE
       /\ \A j \in JobIds :
            (tick[j].pc = "fetch" /\ tick'[j].pc # "fetch"
               /\ ev'.op \in TickOps /\ Data(j).not_modified)
            => ETAG_CACHE' = ETAG_CACHE]_vars

\* C25: a tick of the watched game whose fetch does not fail, while the
\* server publishes a current player, ends the fetch with LAST_TURN_PLAYER
\* the upper-case name of that player; and when it finds LAST_TURN_PLAYER
\* set and another player published, with a chat set and notifications not
\* paused, it sends a turn-change message.
C25_TickRecordsRemotePlayer ==
    [][\A j \in JobIds :
          (/\ tick[j].pc = "fetch"
           /\ tick'[j].pc # "fetch"
           /\ ev'.op \in {"TickNoPlayer", "TickFirstObservation",
                          "TickTurnChanged", "TickSameHolder"}
           /\ tick[j].url = CURRENT_GAME_URL
           /\ RemoteOf(GAME_ID).currentPlayer # None)
          => /\ LAST_TURN_PLAYER' = Upper(RemoteOf(GAME_ID).currentPlayer)
             /\ (/\ LAST_TURN_PLAYER # None
                 /\ LAST_TURN_PLAYER' # LAST_TURN_PLAYER
                 /\ MAIN_CHAT_ID # None /\ ~NOTIFY_PAUSED)
                => ev'.msg.kind = "turnChange"]_vars

\* The normalized names and the display names of the players of game g.
PlayersOf(g) == {Upper(p) : p \in IF g = "g1" THEN PublishedNames
                                  ELSE {"Inca"}}
NationsOf(g) == {Civilizations(g)[i].civName :
                   i \in 1..Len(Civilizations(g))}

\* C26: while a game is set, LAST_TURN_PLAYER, the keys of
\* PLAYER_NOTIFICATION_STATE and AVAILABLE_NATIONS hold only players of that
\* game, never players of the game watched before.
C26_NoDataOfPreviousGame ==
    GAME_ID # None =>
       /\ LAST_TURN_PLAYER \in PlayersOf(GAME_ID) \cup {None}
       /\ DOMAIN PLAYER_NOTIFICATION_STATE \subseteq PlayersOf(GAME_ID)
       /\ \A i \in 1..Len(AVAILABLE_NATIONS) :
             AVAILABLE_NATIONS[i] \in NationsOf(GAME_ID)

\* C27: when /unsubscribe has acknowledged the removal of a handle, no entry
\* of PLAYER_LOGINS has that handle as its value.
C27_UnsubscribeRemovesHandle ==
    [][(ev'.op = "Unsubscribe" /\ ev'.msg.kind = "ack") =>
          \A i \in 1..Len(PLAYER_LOGINS') :
             PLAYER_LOGINS'[i].v # ev'.msg.login]_vars

====
